---- MODULE Spec2Model ----
(***************************************************************************)
(* CollabAnnotate: the range-based annotation engine of the workspace.     *)
(*                                                                         *)
(*   - DocumentViewer (components/document/document-viewer.tsx): the       *)
(*     segment computation `renderedContent` and the selection mapper      *)
(*     `handleSelection`;                                                  *)
(*   - DocumentService (services/document-service.ts): the localStorage    *)
(*     backed annotation store;                                            *)
(*   - App (the application component): the in-memory annotation set, the  *)
(*     publish / delete / flash-insight / summary / draft handlers, the    *)
(*     storage-event sync and the document-switch effect.                  *)
(*                                                                         *)
(* Texts are sequences of one-character strings.  JavaScript runs every    *)
(* handler to completion, and a promise of the storage service is already  *)
(* settled when it is awaited, so a handler together with the microtasks   *)
(* it queues is one atomic step; only the content-generation calls and the *)
(* timers span several steps.                                              *)
(***************************************************************************)
EXTENDS Integers, Sequences, FiniteSets, TLC

VARIABLES
    lsAnnos,             \* localStorage['collab_annotate_annos'], parsed
    currentUser,         \* App state: the joined user's id, or Null
    documents,           \* App state: the document list
    activeDocId,         \* App state: id of the active document, or Null
    annotations,         \* App state: the in-memory active annotation set
    currentSelection,    \* App state: <<>> (null) or <<TextRange>>
    commentText,         \* App state: the draft comment
    activeAnnotationId,  \* App state: an annotation id, or NullId
    searchTerm,          \* App state: the search box
    docSummary,          \* App state: <<>> (null) or <<text>>
    isGeneratingAI,      \* App state: draft insight in progress
    isGeneratingFlash,   \* App state: flash insight in progress
    isSummarizing,       \* App state: summary in progress
    calls,               \* outstanding generateContent calls with their closures
    timers,              \* outstanding setTimeout callbacks with their closures
    now,                 \* Date.now(), in milliseconds since the page load
    nextId,              \* the next crypto.randomUUID()
    console,             \* the last message the page wrote to the console
    stepsLeft,           \* handler runs the model still follows
    rendered,            \* DocumentViewer: the memoized renderedContent
    deleteShown,         \* AnnotationSidebar: ids listed with a Delete button so far
    lsDocs,              \* localStorage['collab_annotate_docs'], parsed
    lsPresence,          \* localStorage['collab_annotate_presence'], parsed
    presence,            \* App state: the presence list
    saves                \* saveDocument calls between their read and their write

vars == <<lsAnnos, currentUser, documents, activeDocId, annotations,
          currentSelection, commentText, activeAnnotationId, searchTerm,
          docSummary, isGeneratingAI, isGeneratingFlash, isSummarizing,
          calls, timers, now, nextId, console, rendered, deleteShown,
          stepsLeft, lsDocs, lsPresence, presence, saves>>

----------------------------------------------------------------------------
(* Bounds of the model *)

\* longest document text drawn for the viewer (besides the scenario text)
MaxLen == 3
\* number of ids crypto.randomUUID() hands out
MaxIds == 3
\* number of annotations the store holds
MaxAnnos == 2
\* number of clock ticks, each one flash expiry interval long
MaxTicks == 2
\* number of handler runs a behaviour of the application is followed for
MaxSteps == 9
\* the same for the removal scenarios, which are longer and have fewer
\* gestures to choose from
MaxRemovalSteps == 11

----------------------------------------------------------------------------
(* Values *)

Null == "null"
NullId == <<>>

UuidId(n) == <<"uuid", n>>
FlashId(n) == <<"flash-", n>>

\* id.startsWith('flash-')
StartsWithFlash(id) == Len(id) = 2 /\ id[1] = "flash-"

Min(S) == CHOOSE x \in S : \A y \in S : x <= y
Max(S) == CHOOSE x \in S : \A y \in S : x >= y

\* all texts over alphabet A of length at most n
RECURSIVE TextsUpTo(_, _)
TextsUpTo(A, n) ==
    IF n = 0 THEN {<<>>}
    ELSE LET shorter == TextsUpTo(A, n - 1)
         IN  shorter \cup {Append(t, c) : t \in shorter, c \in A}

\* String.prototype.slice(start, end) for 0 <= start, 0 <= end
Slice(s, start, end) ==
    LET e == IF end > Len(s) THEN Len(s) ELSE end
    IN  IF start >= e THEN <<>> ELSE SubSeq(s, start + 1, e)

\* String.prototype.toLowerCase, one character
LowerChar(c) ==
    CASE c = "A" -> "a"
      [] c = "B" -> "b"
      [] c = "T" -> "t"
      [] OTHER -> c

ToLowerCase(s) == [i \in 1..Len(s) |-> LowerChar(s[i])]

\* String.prototype.includes
Includes(s, sub) ==
    \E i \in 0..(Len(s) - Len(sub)) : Slice(s, i, i + Len(sub)) = sub

\* String.prototype.trim (the only white space of the alphabet is " ")
RECURSIVE TrimStart(_)
TrimStart(s) == IF s # <<>> /\ Head(s) = " " THEN TrimStart(Tail(s)) ELSE s

RECURSIVE TrimEnd(_)
TrimEnd(s) ==
    IF s # <<>> /\ s[Len(s)] = " " THEN TrimEnd(SubSeq(s, 1, Len(s) - 1)) ELSE s

Trim(s) == TrimEnd(TrimStart(s))

\* Number.prototype.toString for n >= 0, as a text of decimal digits
DigitChar(d) ==
    CASE d = 0 -> "0" [] d = 1 -> "1" [] d = 2 -> "2" [] d = 3 -> "3"
      [] d = 4 -> "4" [] d = 5 -> "5" [] d = 6 -> "6" [] d = 7 -> "7"
      [] d = 8 -> "8" [] OTHER -> "9"

RECURSIVE NumberToString(_)
NumberToString(n) ==
    IF n < 10 THEN <<DigitChar(n)>>
    ELSE Append(NumberToString(n \div 10), DigitChar(n % 10))

----------------------------------------------------------------------------
(* new RegExp(searchTerm, 'gi') over the pattern characters of the model:  *)
(* a letter or blank matches itself ignoring case, "." matches any         *)
(* character, "*" repeats the atom before it (greedy, with backtracking).  *)

\* the RegExp constructor throws SyntaxError ("nothing to repeat")
RegExpThrows(pattern) ==
    \E i \in 1..Len(pattern) :
        pattern[i] = "*" /\ (i = 1 \/ pattern[i - 1] = "*")

RECURSIVE RegExpAtoms(_)
RegExpAtoms(pattern) ==
    IF pattern = <<>> THEN <<>>
    ELSE IF Len(pattern) >= 2 /\ pattern[2] = "*"
         THEN <<[ch |-> pattern[1], star |-> TRUE]>>
                  \o RegExpAtoms(SubSeq(pattern, 3, Len(pattern)))
         ELSE <<[ch |-> pattern[1], star |-> FALSE]>>
                  \o RegExpAtoms(Tail(pattern))

CharMatches(pc, c) == pc = "." \/ LowerChar(pc) = LowerChar(c)

\* how many characters of s from offset p on match pc
RECURSIVE RunLength(_, _, _)
RunLength(pc, s, p) ==
    IF p < Len(s) /\ CharMatches(pc, s[p + 1])
    THEN 1 + RunLength(pc, s, p + 1) ELSE 0

\* end offset of the match of atoms[k..] at offset p of s, or -1
RECURSIVE MatchFrom(_, _, _, _)
MatchFrom(atoms, k, s, p) ==
    IF k > Len(atoms) THEN p
    ELSE IF atoms[k].star
         THEN LET ok == {c \in 0..RunLength(atoms[k].ch, s, p) :
                            MatchFrom(atoms, k + 1, s, p + c) # -1}
              IN  IF ok = {} THEN -1
                  ELSE MatchFrom(atoms, k + 1, s, p + Max(ok))
         ELSE IF p < Len(s) /\ CharMatches(atoms[k].ch, s[p + 1])
              THEN MatchFrom(atoms, k + 1, s, p + 1)
              ELSE -1

NoMatch == [index |-> -1, end |-> -1]

\* regex.exec(content) of a global regex whose lastIndex is lastIndex:
\* the leftmost match at or after lastIndex (match.index, and
\* match.index + match[0].length, which becomes the new lastIndex), or null
RegExpExec(atoms, s, lastIndex) ==
    LET found == {i \in lastIndex..Len(s) : MatchFrom(atoms, 1, s, i) # -1}
    IN  IF found = {} THEN NoMatch
        ELSE [index |-> Min(found), end |-> MatchFrom(atoms, 1, s, Min(found))]

\* while ((match = regex.exec(content)) !== null) { boundaries.add ... }
\* exec does not advance lastIndex past an empty match, so the loop then
\* finds the same match for ever
RECURSIVE MatchLoop(_, _, _)
MatchLoop(atoms, s, lastIndex) ==
    LET match == RegExpExec(atoms, s, lastIndex)
    IN  IF match = NoMatch THEN [hangs |-> FALSE, spans |-> {}]
        ELSE IF match.end = match.index THEN [hangs |-> TRUE, spans |-> {}]
        ELSE LET rest == MatchLoop(atoms, s, match.end)
             IN  [hangs |-> rest.hangs,
                  spans |-> {<<match.index, match.end>>} \cup rest.spans]

\* a search that needs one more character before it starts
SearchActive_Longer(term) == Len(term) > 3

\* searchTerm && searchTerm.length > 2
SearchActive(term) == Len(term) > 2

----------------------------------------------------------------------------
(* DocumentViewer.renderedContent *)

RECURSIVE SortedSeq(_)
SortedSeq(S) ==
    IF S = {} THEN <<>> ELSE <<Min(S)>> \o SortedSeq(S \ {Min(S)})

\* an insertion that keeps the order in which the annotations were given
InsertByTimestamp_Append(sorted, a) == Append(sorted, a)

\* Array.prototype.sort((a, b) => b.timestamp - a.timestamp), which is stable
InsertByTimestamp(sorted, a) ==
    LET later == {i \in 1..Len(sorted) : sorted[i].timestamp < a.timestamp}
    IN  IF later = {} THEN Append(sorted, a)
        ELSE SubSeq(sorted, 1, Min(later) - 1) \o <<a>>
                 \o SubSeq(sorted, Min(later), Len(sorted))

RECURSIVE SortByTimestampDesc(_)
SortByTimestampDesc(s) ==
    IF s = <<>> THEN <<>>
    ELSE InsertByTimestamp(SortByTimestampDesc(SubSeq(s, 1, Len(s) - 1)),
                           s[Len(s)])

\* a.replies?.length || 0: the replies field is optional
ReplyCount(a) == IF "replies" \in DOMAIN a THEN Len(a.replies) ELSE 0

\* a count that looks at the primary annotation only
SumReplies_PrimaryOnly(s) == IF s = <<>> THEN 0 ELSE ReplyCount(Head(s))

\* activeAnnos.reduce((sum, a) => sum + (a.replies?.length || 0), 0)
RECURSIVE SumReplies(_)
SumReplies(s) ==
    IF s = <<>> THEN 0 ELSE ReplyCount(Head(s)) + SumReplies(Tail(s))

\* a filter that looks only at where the segment starts
Covers_StartOnly(start, end, range) ==
    start >= range.start /\ start <= range.end

\* a filter that misses the segments starting where the range starts
Covers_Strict(start, end, range) == start > range.start /\ end <= range.end

\* the filter of the segment loop: the segment lies inside the range
Covers(start, end, range) == start >= range.start /\ end <= range.end

\* a boundary set that leaves out where the ranges end
Boundaries_StartsOnly(content, annos, matchSpans) ==
    {0, Len(content)}
        \cup {annos[i].range.start : i \in 1..Len(annos)}
        \cup {m[1] : m \in matchSpans} \cup {m[2] : m \in matchSpans}

\* the boundary set: 0, content.length, every range's ends, every match's ends
Boundaries(content, annos, matchSpans) ==
    {0, Len(content)}
        \cup {annos[i].range.start : i \in 1..Len(annos)}
        \cup {annos[i].range.end : i \in 1..Len(annos)}
        \cup {m[1] : m \in matchSpans} \cup {m[2] : m \in matchSpans}

\* one iteration of the segment loop
Segment(content, annos, activeId, term, start, end) ==
    LET text == Slice(content, start, end)
        inside(a) == Covers(start, end, a.range)
        activeAnnos == SortByTimestampDesc(SelectSeq(annos, inside))
        totalReplies == SumReplies(activeAnnos)
    IN  [start |-> start, end |-> end, text |-> text,
         activeAnnos |-> [i \in 1..Len(activeAnnos) |-> activeAnnos[i].id],
         isSearchMatch |-> SearchActive(term)
                             /\ Includes(ToLowerCase(text), ToLowerCase(term)),
         isSelected |-> \E i \in 1..Len(activeAnnos) :
                            activeAnnos[i].id = activeId,
         isFlash |-> \E i \in 1..Len(activeAnnos) :
                            StartsWithFlash(activeAnnos[i].id),
         primaryAnno |-> IF activeAnnos = <<>> THEN NullId
                         ELSE activeAnnos[1].id,
         totalReplies |-> totalReplies,
         badge |-> IF activeAnnos # <<>> /\ totalReplies > 0
                   THEN NumberToString(totalReplies) ELSE <<>>]

\* the search part of the useMemo body: the spans the match loop adds
SearchMatches(content, term) ==
    IF SearchActive(term)
    THEN MatchLoop(RegExpAtoms(term), content, 0)
    ELSE [hangs |-> FALSE, spans |-> {}]

\* how the useMemo body ends: "null" for empty content, "throws" when the
\* RegExp constructor throws, "hangs" when the match loop never ends
RenderStatus(content, term) ==
    IF content = <<>> THEN "null"
    ELSE IF SearchActive(term) /\ RegExpThrows(term) THEN "throws"
    ELSE IF SearchMatches(content, term).hangs THEN "hangs"
    ELSE "ok"

\* the useMemo body: how it ends and, when it returns them, the segments
renderedContent(content, annos, activeId, term) ==
    IF RenderStatus(content, term) # "ok"
    THEN [status |-> RenderStatus(content, term), segments |-> <<>>]
    ELSE LET sortedBoundaries ==
                 SortedSeq(Boundaries(content, annos,
                                      SearchMatches(content, term).spans))
         IN  [status |-> "ok",
              segments |->
                  [i \in 1..(Len(sortedBoundaries) - 1) |->
                      Segment(content, annos, activeId, term,
                              sortedBoundaries[i], sortedBoundaries[i + 1])]]

\* a sort called on the array the component was given
SortReceiver_Prop == "annotations"

\* the array that activeAnnos.sort(...) is called on and sorts in place
SortReceiver == "activeAnnos"

\* The arrays after the filter and the sort of one iteration of the segment
\* loop: filter returns a new array, sort reorders its receiver in place and
\* runs only for a segment with covering annotations.
SegmentArrays(annos, start, end) ==
    LET inside(a) == Covers(start, end, a.range)
        filtered == [annotations |-> annos,
                     activeAnnos |-> SelectSeq(annos, inside)]
    IN  IF filtered.activeAnnos # <<>>
        THEN [filtered EXCEPT ![SortReceiver] = SortByTimestampDesc(@)]
        ELSE filtered

RECURSIVE AnnotationsAfterLoop(_, _, _)
AnnotationsAfterLoop(annos, sortedBoundaries, i) ==
    IF i > Len(sortedBoundaries) - 1 THEN annos
    ELSE AnnotationsAfterLoop(
             SegmentArrays(annos, sortedBoundaries[i],
                           sortedBoundaries[i + 1]).annotations,
             sortedBoundaries, i + 1)

\* the `annotations` array of the caller as the useMemo body leaves it
AnnotationsAfter(content, annos, term) ==
    IF RenderStatus(content, term) # "ok" THEN annos
    ELSE AnnotationsAfterLoop(
             annos,
             SortedSeq(Boundaries(content, annos,
                                  SearchMatches(content, term).spans)),
             1)

\* the text nodes under the container in document order: every segment's
\* text followed by its reply-count badge, the badge's digits marked
RECURSIVE DomText(_)
DomText(segments) ==
    IF segments = <<>> THEN <<>>
    ELSE LET seg == Head(segments)
         IN  [i \in 1..Len(seg.text) |-> [ch |-> seg.text[i], badge |-> FALSE]]
             \o [i \in 1..Len(seg.badge) |-> [ch |-> seg.badge[i], badge |-> TRUE]]
             \o DomText(Tail(segments))

\* Range.toString() / Selection.toString() between two offsets of the DOM text
DomString(dom, from, to) == [i \in 1..(to - from) |-> dom[from + i].ch]

\* a mapper that passes on a selection of blanks
handleSelection_NoTrim(dom, from, to) ==
    IF from = to THEN <<>>
    ELSE LET start == Len(DomString(dom, 0, from))
             selectedText == DomString(dom, from, to)
         IN  <<[start |-> start, end |-> start + Len(selectedText),
                text |-> selectedText]>>

\* handleSelection for a selection from DOM offset from to DOM offset to:
\* <<>> when nothing is emitted, else <<the range given to onSelectRange>>
handleSelection(dom, from, to) ==
    IF from = to THEN <<>>
    ELSE LET start == Len(DomString(dom, 0, from))
             selectedText == DomString(dom, from, to)
             end == start + Len(selectedText)
         IN  IF Len(Trim(selectedText)) > 0
             THEN <<[start |-> start, end |-> end, text |-> selectedText]>>
             ELSE <<>>

----------------------------------------------------------------------------
(* DocumentService: each call maps the stored list to the list it leaves   *)
(* and tells whether it dispatched the 'storage' event.                    *)

SameTuple(a, b) ==
    /\ a.documentId = b.documentId
    /\ a.userId = b.userId
    /\ a.range.start = b.range.start
    /\ a.range.end = b.range.end

getAnnotations(all, documentId) ==
    LET ofDoc(a) == a.documentId = documentId
    IN  SelectSeq(all, ofDoc)

\* a save without the duplicate check
saveAnnotation_NoGuard(all, anno) == [annos |-> Append(all, anno), event |-> TRUE]

saveAnnotation(all, anno) ==
    IF \E i \in 1..Len(all) : SameTuple(all[i], anno)
    THEN [annos |-> all, event |-> FALSE]
    ELSE [annos |-> Append(all, anno), event |-> TRUE]

\* all.findIndex(a => a.id === id), 1-based, 0 when there is none
FindIndex(all, id) ==
    LET hits == {i \in 1..Len(all) : all[i].id = id}
    IN  IF hits = {} THEN 0 ELSE Min(hits)

updateAnnotation(all, id, comment) ==
    LET index == FindIndex(all, id)
    IN  IF index # 0
        THEN [annos |-> [all EXCEPT ![index].comment = comment], event |-> TRUE]
        ELSE [annos |-> all, event |-> FALSE]

\* if (!all[index].replies) all[index].replies = []; then push(reply)
WithReply(anno, reply) ==
    [f \in DOMAIN anno \cup {"replies"} |->
        IF f # "replies" THEN anno[f]
        ELSE IF "replies" \in DOMAIN anno THEN Append(anno.replies, reply)
        ELSE <<reply>>]

\* a reply that creates a record for an id the store does not hold
addReply_Upserts(all, annotationId, reply) ==
    LET index == FindIndex(all, annotationId)
    IN  IF index # 0
        THEN [annos |-> [all EXCEPT ![index] = WithReply(@, reply)],
              event |-> TRUE]
        ELSE [annos |-> Append(all, [id |-> annotationId,
                                     documentId |-> Null,
                                     userId |-> reply.userId,
                                     range |-> [start |-> 0, end |-> 0,
                                                text |-> <<>>],
                                     comment |-> <<>>,
                                     timestamp |-> reply.timestamp,
                                     replies |-> <<reply>>,
                                     isTemporary |-> FALSE]),
              event |-> TRUE]

\* a reply put in front of the earlier ones
addReply_Prepends(all, annotationId, reply) ==
    LET index == FindIndex(all, annotationId)
    IN  IF index # 0
        THEN [annos |-> [all EXCEPT ![index].replies = <<reply>> \o @],
              event |-> TRUE]
        ELSE [annos |-> all, event |-> FALSE]

addReply(all, annotationId, reply) ==
    LET index == FindIndex(all, annotationId)
    IN  IF index # 0
        THEN [annos |-> [all EXCEPT ![index] = WithReply(@, reply)],
              event |-> TRUE]
        ELSE [annos |-> all, event |-> FALSE]

deleteAnnotation(all, id) ==
    LET keep(a) == a.id # id
    IN  [annos |-> SelectSeq(all, keep), event |-> TRUE]

----------------------------------------------------------------------------
(* App *)

\* the user this tab joins as, the user of another tab, the flash author
ThisUser == "u1"
OtherUser == "u2"
GeminiUser == "gemini-ai"

\* setTimeout(..., 10000) of handleFlashInsight, in milliseconds
FlashExpiryMs == 10000

\* the fixed strings of the content-generation handlers
SummaryEmptyFallback == <<"Summary generation failed.">>
SummaryErrorFallback == <<"AI service unavailable. Please check your network connection.">>
DraftErrorFallback == <<"Drafting failed.">>
FlashEmptyFallback == <<"Interesting point.">>

\* documents.find(d => d.id === activeDocId): <<>> or <<the document>>
activeDoc ==
    LET isActive(d) == d.id = activeDocId
    IN  SelectSeq(documents, isActive)

HasActiveDoc == activeDoc # <<>>

\* the viewer's useMemo for a state of the application: the App renders the
\* DocumentViewer only while there is an active document
ViewerOf(docs, docId, annos, activeId, term) ==
    LET isActive(d) == d.id = docId
        found == SelectSeq(docs, isActive)
    IN  IF found # <<>>
        THEN renderedContent(found[1].content, annos, activeId, term)
        ELSE [status |-> "null", segments |-> <<>>]

Viewer ==
    ViewerOf(documents, activeDocId, annotations, activeAnnotationId, searchTerm)

\* an exception thrown while rendering unmounts the application, and a
\* render that never returns blocks the thread: no handler runs afterwards
Crashed == rendered.status \in {"throws", "hangs"}

\* a handler run within the length the model follows
Counted == stepsLeft > 0 /\ stepsLeft' = stepsLeft - 1

\* the sidebar's condition for the Edit and Delete buttons of a card
OwnStored(anno, user) == anno.userId = user /\ ~anno.isTemporary

\* the ids the sidebar lists with a Delete button
DeleteButtons(annos, user) ==
    {annos[i].id : i \in {j \in 1..Len(annos) : OwnStored(annos[j], user)}}

\* every state change re-renders: the viewer's useMemo recomputes its value
\* and the sidebar lists the annotation set
Rerender ==
    /\ rendered' = ViewerOf(documents', activeDocId', annotations',
                            activeAnnotationId', searchTerm')
    /\ deleteShown' = deleteShown \cup DeleteButtons(annotations', currentUser')

Temps(prev) ==
    LET isTemp(a) == a.isTemporary
    IN  SelectSeq(prev, isTemp)

\* a filter that removes nothing
WithoutId_Keeps(prev, id) == prev

\* prev.filter(a => a.id !== id)
WithoutId(prev, id) ==
    LET other(a) == a.id # id
    IN  SelectSeq(prev, other)

\* a sync that replaces the whole set by the stored annotations
syncAll_DropsTemps(prev, all) ==
    IF currentUser # Null /\ activeDocId # Null
    THEN getAnnotations(all, activeDocId)
    ELSE prev

\* syncAll's update of the annotation set: the effect's listener exists once
\* a user has joined and closes over the active document id
syncAll(prev, all) ==
    IF currentUser # Null /\ activeDocId # Null
    THEN getAnnotations(all, activeDocId) \o Temps(prev)
    ELSE prev

\* The annotation set after a handler awaited a service call: the listener
\* of the 'storage' event reads the store before the handler resumes, the
\* handler's update `mine` is queued next and syncAll's update last.
AfterService(result, mine) ==
    IF result.event THEN syncAll(mine, result.annos) ELSE mine

\* a handler that updated the set before its service call was settled
AfterRejected_Optimistic(prev, mine) == mine

\* The annotation set after a handler's awaited service call rejected: the
\* statements after the await, the update `mine` among them, never ran.
AfterRejected(prev, mine) == prev

\* a handler that resets its flag at the end of the try block only
InProgressAfter_NoFinally(outcome) == outcome = "error"

\* finally { setIsSummarizing(false) } and its like: the in-progress flag
\* after the generation call is settled, whatever its outcome
InProgressAfter(outcome) == FALSE

\* the console's report of a handler whose promise rejects unhandled
Uncaught(handler) == <<"Uncaught (in promise)", handler>>
\* console.error("Flash insight failed", error)
FlashFailed == <<"Flash insight failed">>

\* the document store, the presence store and list, the saves under way
libraryVars == <<lsDocs, lsPresence, presence, saves>>

\* syncAll's setDocuments(docs): the listener exists once a user has joined
syncDocuments(prev, docs) == IF currentUser # Null THEN docs ELSE prev

\* the document list after a handler awaited a service call, which ran
\* syncAll if it dispatched the 'storage' event
DocumentsAfterService(result) ==
    IF result.event THEN syncDocuments(documents, lsDocs) ELSE documents

appVars == <<currentUser, documents, activeDocId, annotations,
             currentSelection, commentText, activeAnnotationId, searchTerm,
             docSummary>>
aiVars == <<isGeneratingAI, isGeneratingFlash, isSummarizing, calls>>

----------------------------------------------------------------------------
(* Inputs of the model *)

\* document texts drawn for the viewer
ContentAlphabet == {"B", " "}
FoxContent == <<"T", "h", "e", " ", "q", "u", "i", "c", "k", " ",
                "b", "r", "o", "w", "n", " ", "f", "o", "x">>
FoxTerm == <<"f", "o", "x">>
\* the selections tried on the scenario text, as document offsets
ScenarioSpans == {<<4, 9>>, <<5, 12>>}

\* what the user types into the search box: nothing, too short a term, a
\* literal term, a pattern, a pattern the RegExp constructor rejects and one
\* that matches the empty string
SearchTerms ==
    {<<>>, <<"b", " ">>, FoxTerm, <<"b", "*", " ">>, <<"*", "b", " ">>,
     <<"b", "*", " ", "*">>}

\* the terms the model types over a text: the scenario's term over the
\* scenario text, the others over the short texts
TermsTried(content) ==
    IF content = FoxContent THEN {<<>>, FoxTerm}
    ELSE SearchTerms \ {<<"b", " ">>, FoxTerm}

\* what the user types as a comment, an edit and a reply, and what the
\* generation service answers
CommentInputs == {<<"c">>}
EditInput == <<"e">>
ReplyInput == <<"r">>
AiText == <<"ai">>
Outcomes == {"text", "empty", "error"}

\* the library of the application runs
AppDocuments == <<[id |-> "d1", content |-> <<"B", " ">>],
                  [id |-> "d2", content |-> <<"B">>]>>

TickMs == FlashExpiryMs

----------------------------------------------------------------------------
(* App: user gestures *)

\* handleJoin with a non-blank name
handleJoin ==
    /\ Counted
    /\ UNCHANGED libraryVars
    /\ currentUser = Null
    /\ currentUser' = ThisUser
    /\ UNCHANGED console
    /\ UNCHANGED <<lsAnnos, documents, activeDocId, annotations,
                   currentSelection, commentText, activeAnnotationId,
                   searchTerm, docSummary, aiVars, timers, now, nextId>>
    /\ Rerender

\* a library entry is clicked: setActiveDocId(doc.id), then the
\* document-switching effect
SelectDocument(d) ==
    /\ Counted
    /\ UNCHANGED libraryVars
    /\ currentUser # Null /\ ~Crashed
    /\ \A s \in saves : s.tab # "this"
    /\ \E i \in 1..Len(documents) : documents[i].id = d
    /\ d # activeDocId
    /\ activeDocId' = d
    /\ annotations' = getAnnotations(lsAnnos, d)
    /\ currentSelection' = <<>>
    /\ commentText' = <<>>
    /\ activeAnnotationId' = NullId
    /\ docSummary' = <<>>
    /\ searchTerm' = <<>>
    /\ UNCHANGED console
    /\ UNCHANGED <<lsAnnos, currentUser, documents, aiVars, timers, now, nextId>>
    /\ Rerender

\* "+ Add Document": setActiveDocId(null); the effect does nothing
CloseDocument ==
    /\ Counted
    /\ UNCHANGED libraryVars
    /\ currentUser # Null /\ ~Crashed
    /\ \A s \in saves : s.tab # "this"
    /\ activeDocId # Null
    /\ activeDocId' = Null
    /\ UNCHANGED console
    /\ UNCHANGED <<lsAnnos, currentUser, documents, annotations,
                   currentSelection, commentText, activeAnnotationId,
                   searchTerm, docSummary, aiVars, timers, now, nextId>>
    /\ Rerender

\* the DOM offsets of a selection that the user drags from just before
\* document character s to just after document character e - 1
DomOffsets(dom, s, e) ==
    LET docNodes == SortedSeq({i \in 1..Len(dom) : ~dom[i].badge})
    IN  IF s = e THEN <<0, 0>> ELSE <<docNodes[s + 1] - 1, docNodes[e]>>

\* the selections the model tries, as document offsets: every one on a
\* short text, the scenario's spans on the scenario text
SpansTried(content) ==
    IF Len(content) <= MaxLen
    THEN {<<s, e>> \in (0..Len(content)) \X (0..Len(content)) : s <= e}
    ELSE ScenarioSpans

\* onMouseUp over the container with document characters s .. e - 1 selected
MouseUp ==
    /\ Counted
    /\ UNCHANGED libraryVars
    /\ currentUser # Null /\ HasActiveDoc
    /\ rendered.status = "ok"
    /\ LET dom == DomText(rendered.segments)
       IN  \E span \in SpansTried(activeDoc[1].content) :
               LET offsets == DomOffsets(dom, span[1], span[2])
                   emitted == handleSelection(dom, offsets[1], offsets[2])
               IN  /\ currentSelection' =
                          IF emitted = <<>> THEN currentSelection ELSE emitted
                   /\ UNCHANGED console
    /\ UNCHANGED <<lsAnnos, currentUser, documents, activeDocId, annotations,
                   commentText, activeAnnotationId, searchTerm, docSummary,
                   aiVars, timers, now, nextId>>
    /\ Rerender

\* the search box of the document header
SetSearchTerm(t) ==
    /\ Counted
    /\ UNCHANGED libraryVars
    /\ currentUser # Null /\ HasActiveDoc /\ ~Crashed
    /\ t \in TermsTried(activeDoc[1].content)
    /\ t # searchTerm
    /\ searchTerm' = t
    /\ UNCHANGED console
    /\ UNCHANGED <<lsAnnos, currentUser, documents, activeDocId, annotations,
                   currentSelection, commentText, activeAnnotationId,
                   docSummary, aiVars, timers, now, nextId>>
    /\ Rerender

\* the textarea of the selection HUD
SetCommentText(t) ==
    /\ Counted
    /\ UNCHANGED libraryVars
    /\ currentUser # Null /\ ~Crashed
    /\ currentSelection # <<>>
    /\ t # commentText
    /\ commentText' = t
    /\ UNCHANGED console
    /\ UNCHANGED <<lsAnnos, currentUser, documents, activeDocId, annotations,
                   currentSelection, activeAnnotationId, searchTerm,
                   docSummary, aiVars, timers, now, nextId>>
    /\ Rerender

\* the HUD's close and Discard buttons: setCurrentSelection(null)
DiscardSelection ==
    /\ Counted
    /\ UNCHANGED libraryVars
    /\ currentUser # Null /\ ~Crashed
    /\ currentSelection # <<>>
    /\ currentSelection' = <<>>
    /\ UNCHANGED console
    /\ UNCHANGED <<lsAnnos, currentUser, documents, activeDocId, annotations,
                   commentText, activeAnnotationId, searchTerm, docSummary,
                   aiVars, timers, now, nextId>>
    /\ Rerender

\* a highlight or a sidebar card is clicked: setActiveAnnotationId(id)
ClickAnnotation(id) ==
    /\ Counted
    /\ UNCHANGED libraryVars
    /\ currentUser # Null /\ HasActiveDoc /\ ~Crashed
    /\ \E i \in 1..Len(annotations) : annotations[i].id = id
    /\ id # activeAnnotationId
    /\ activeAnnotationId' = id
    /\ UNCHANGED console
    /\ UNCHANGED <<lsAnnos, currentUser, documents, activeDocId, annotations,
                   currentSelection, commentText, searchTerm, docSummary,
                   aiVars, timers, now, nextId>>
    /\ Rerender

----------------------------------------------------------------------------
(* App and sidebar: handlers that call the DocumentService.  `rejects`     *)
(* says that the call throws (getItem, JSON.parse or setItem), which it    *)
(* does before the store is written and before the event is dispatched.    *)

\* Publish
handleAddAnnotation(rejects) ==
    /\ Counted
    /\ UNCHANGED libraryVars
    /\ currentUser # Null /\ ~Crashed
    /\ currentSelection # <<>>
    /\ nextId <= MaxIds /\ Len(lsAnnos) < MaxAnnos
    /\ IF activeDocId = Null \/ Trim(commentText) = <<>>
       THEN UNCHANGED <<lsAnnos, appVars, nextId, console>>
       ELSE LET newAnno == [id |-> UuidId(nextId),
                            documentId |-> activeDocId,
                            userId |-> currentUser,
                            range |-> currentSelection[1],
                            comment |-> commentText,
                            timestamp |-> now,
                            replies |-> <<>>,
                            isTemporary |-> FALSE]
                saved == saveAnnotation(lsAnnos, newAnno)
            IN  IF rejects
                THEN /\ console' = Uncaught("handleAddAnnotation")
                     /\ annotations' =
                            AfterRejected(annotations, Append(annotations, newAnno))
                     /\ UNCHANGED <<lsAnnos, currentUser, documents, activeDocId,
                                    currentSelection, commentText,
                                    activeAnnotationId, searchTerm, docSummary,
                                    nextId>>
                ELSE /\ lsAnnos' = saved.annos
                     /\ annotations' =
                            AfterService(saved, Append(annotations, newAnno))
                     /\ currentSelection' = <<>>
                     /\ commentText' = <<>>
                     /\ activeAnnotationId' = newAnno.id
                     /\ nextId' = nextId + 1
                     /\ documents' = DocumentsAfterService(saved)
                     /\ UNCHANGED <<currentUser, activeDocId,
                                    searchTerm, docSummary, console>>
    /\ UNCHANGED <<aiVars, timers, now>>
    /\ Rerender

\* the ids a Delete button may carry: an own, non-temporary annotation that
\* is listed, or one that was listed with the button and is gone from the set
\* and the store by the time the handler runs
Deletable(id) ==
    \/ id \in DeleteButtons(annotations, currentUser)
    \/ /\ id \in deleteShown
       /\ \A i \in 1..Len(annotations) : annotations[i].id # id
       /\ \A i \in 1..Len(lsAnnos) : lsAnnos[i].id # id

\* the sidebar's Delete button
handleDeleteAnnotation(id, rejects) ==
    /\ Counted
    /\ UNCHANGED libraryVars
    /\ currentUser # Null /\ HasActiveDoc /\ ~Crashed
    /\ Deletable(id)
    /\ IF rejects
       THEN /\ console' = Uncaught("handleDeleteAnnotation")
            /\ annotations' =
                   AfterRejected(annotations, WithoutId(annotations, id))
            /\ UNCHANGED <<lsAnnos, documents>>
       ELSE LET deleted == deleteAnnotation(lsAnnos, id)
            IN  /\ lsAnnos' = deleted.annos
                /\ annotations' =
                       AfterService(deleted, WithoutId(annotations, id))
                /\ documents' = DocumentsAfterService(deleted)
                /\ UNCHANGED console
    /\ UNCHANGED <<currentUser, activeDocId, currentSelection,
                   commentText, activeAnnotationId, searchTerm, docSummary,
                   aiVars, timers, now, nextId>>
    /\ Rerender

\* the sidebar's Save Changes on an own stored annotation, non-blank value
saveEdit(editingId, rejects) ==
    /\ Counted
    /\ UNCHANGED libraryVars
    /\ currentUser # Null /\ HasActiveDoc /\ ~Crashed
    /\ \E i \in 1..Len(annotations) :
           /\ annotations[i].id = editingId
           /\ OwnStored(annotations[i], currentUser)
           /\ annotations[i].comment # EditInput
    /\ IF rejects
       THEN /\ console' = Uncaught("saveEdit")
            /\ UNCHANGED <<lsAnnos, annotations, documents>>
       ELSE LET updated == updateAnnotation(lsAnnos, editingId, EditInput)
            IN  /\ lsAnnos' = updated.annos
                /\ annotations' = AfterService(updated, annotations)
                /\ documents' = DocumentsAfterService(updated)
                /\ UNCHANGED console
    /\ UNCHANGED <<currentUser, activeDocId, currentSelection,
                   commentText, activeAnnotationId, searchTerm, docSummary,
                   aiVars, timers, now, nextId>>
    /\ Rerender

\* the sidebar's Post Reply on any listed annotation, non-blank value
submitReply(annoId, rejects) ==
    /\ Counted
    /\ UNCHANGED libraryVars
    /\ currentUser # Null /\ HasActiveDoc /\ ~Crashed
    /\ \E i \in 1..Len(annotations) : annotations[i].id = annoId
    /\ nextId <= MaxIds
    /\ IF rejects
       THEN /\ console' = Uncaught("submitReply")
            /\ UNCHANGED <<lsAnnos, annotations, documents, nextId>>
       ELSE LET newReply == [id |-> UuidId(nextId),
                             userId |-> currentUser,
                             comment |-> ReplyInput,
                             timestamp |-> now]
                replied == addReply(lsAnnos, annoId, newReply)
            IN  /\ lsAnnos' = replied.annos
                /\ annotations' = AfterService(replied, annotations)
                /\ documents' = DocumentsAfterService(replied)
                /\ nextId' = nextId + 1
                /\ UNCHANGED console
    /\ UNCHANGED <<currentUser, activeDocId, currentSelection,
                   commentText, activeAnnotationId, searchTerm, docSummary,
                   aiVars, timers, now>>
    /\ Rerender

----------------------------------------------------------------------------
(* Another tab of the same browser: its service calls write the shared     *)
(* store, and this tab's 'storage' listener runs syncAll.                  *)

OtherTabSaves(d, start, end) ==
    /\ Counted
    /\ UNCHANGED libraryVars
    /\ ~Crashed
    /\ nextId <= MaxIds /\ Len(lsAnnos) < MaxAnnos
    /\ \E i \in 1..Len(documents) :
           /\ documents[i].id = d
           /\ 0 <= start /\ start < end /\ end <= Len(documents[i].content)
           /\ LET anno == [id |-> UuidId(nextId),
                           documentId |-> d,
                           userId |-> OtherUser,
                           range |-> [start |-> start, end |-> end,
                                      text |-> Slice(documents[i].content,
                                                     start, end)],
                           comment |-> <<"c">>,
                           timestamp |-> now,
                           replies |-> <<>>,
                           isTemporary |-> FALSE]
                  saved == saveAnnotation(lsAnnos, anno)
              IN  /\ saved.event
                  /\ lsAnnos' = saved.annos
                  /\ annotations' = syncAll(annotations, saved.annos)
    /\ documents' = syncDocuments(documents, lsDocs)
    /\ nextId' = nextId + 1
    /\ UNCHANGED console
    /\ UNCHANGED <<currentUser, activeDocId, currentSelection,
                   commentText, activeAnnotationId, searchTerm, docSummary,
                   aiVars, timers, now>>
    /\ Rerender

OtherTabDeletes(id) ==
    /\ Counted
    /\ UNCHANGED libraryVars
    /\ ~Crashed
    /\ \E i \in 1..Len(lsAnnos) : lsAnnos[i].id = id
    /\ LET deleted == deleteAnnotation(lsAnnos, id)
       IN  /\ lsAnnos' = deleted.annos
           /\ annotations' = syncAll(annotations, deleted.annos)
    /\ documents' = syncDocuments(documents, lsDocs)
    /\ UNCHANGED console
    /\ UNCHANGED <<currentUser, activeDocId, currentSelection,
                   commentText, activeAnnotationId, searchTerm, docSummary,
                   aiVars, timers, now, nextId>>
    /\ Rerender

----------------------------------------------------------------------------
(* App: content generation.  A handler runs up to its await of             *)
(* ai.models.generateContent and leaves a call holding the values its      *)
(* closure captured; the rest of the handler runs when the call returns.   *)

handleGenerateSummary ==
    /\ Counted
    /\ UNCHANGED libraryVars
    /\ currentUser # Null /\ HasActiveDoc /\ ~Crashed
    /\ ~isSummarizing
    /\ isSummarizing' = TRUE
    /\ calls' = calls \cup {[kind |-> "summary", docId |-> activeDoc[1].id,
                             selection |-> <<>>, activeId |-> NullId]}
    /\ UNCHANGED console
    /\ UNCHANGED <<lsAnnos, appVars, isGeneratingAI, isGeneratingFlash,
                   timers, now, nextId>>
    /\ Rerender

handleGenerateAIInsight ==
    /\ Counted
    /\ UNCHANGED libraryVars
    /\ currentUser # Null /\ ~Crashed
    /\ currentSelection # <<>> /\ HasActiveDoc
    /\ ~isGeneratingAI
    /\ isGeneratingAI' = TRUE
    /\ calls' = calls \cup {[kind |-> "insight", docId |-> activeDoc[1].id,
                             selection |-> currentSelection,
                             activeId |-> NullId]}
    /\ UNCHANGED console
    /\ UNCHANGED <<lsAnnos, appVars, isSummarizing, isGeneratingFlash,
                   timers, now, nextId>>
    /\ Rerender

handleFlashInsight ==
    /\ Counted
    /\ UNCHANGED libraryVars
    /\ currentUser # Null /\ ~Crashed
    /\ currentSelection # <<>> /\ HasActiveDoc
    /\ ~isGeneratingFlash
    /\ isGeneratingFlash' = TRUE
    /\ calls' = calls \cup {[kind |-> "flash", docId |-> activeDoc[1].id,
                             selection |-> currentSelection,
                             activeId |-> activeAnnotationId]}
    /\ UNCHANGED console
    /\ UNCHANGED <<lsAnnos, appVars, isSummarizing, isGeneratingAI,
                   timers, now, nextId>>
    /\ Rerender

\* response.text?.trim() || fallback
TextOr(outcome, fallback) == IF outcome = "text" THEN Trim(AiText) ELSE fallback

\* the rest of handleGenerateSummary
SummaryReturns(c, outcome) ==
    /\ Counted
    /\ UNCHANGED libraryVars
    /\ c \in calls /\ c.kind = "summary" /\ ~Crashed
    /\ docSummary' = IF outcome = "error" THEN <<SummaryErrorFallback>>
                     ELSE <<TextOr(outcome, SummaryEmptyFallback)>>
    /\ isSummarizing' = InProgressAfter(outcome)
    /\ calls' = calls \ {c}
    /\ UNCHANGED console
    /\ UNCHANGED <<lsAnnos, currentUser, documents, activeDocId, annotations,
                   currentSelection, commentText, activeAnnotationId,
                   searchTerm, isGeneratingAI, isGeneratingFlash,
                   timers, now, nextId>>
    /\ Rerender

\* the rest of handleGenerateAIInsight
InsightReturns(c, outcome) ==
    /\ Counted
    /\ UNCHANGED libraryVars
    /\ c \in calls /\ c.kind = "insight" /\ ~Crashed
    /\ commentText' = IF outcome = "error" THEN DraftErrorFallback
                      ELSE TextOr(outcome, <<>>)
    /\ isGeneratingAI' = InProgressAfter(outcome)
    /\ calls' = calls \ {c}
    /\ UNCHANGED console
    /\ UNCHANGED <<lsAnnos, currentUser, documents, activeDocId, annotations,
                   currentSelection, activeAnnotationId, searchTerm,
                   docSummary, isSummarizing, isGeneratingFlash,
                   timers, now, nextId>>
    /\ Rerender

\* the rest of handleFlashInsight
FlashReturns(c, outcome) ==
    /\ Counted
    /\ UNCHANGED libraryVars
    /\ c \in calls /\ c.kind = "flash" /\ ~Crashed
    /\ outcome # "error" => nextId <= MaxIds
    /\ IF outcome = "error"
       THEN UNCHANGED <<annotations, activeAnnotationId, currentSelection,
                        timers, nextId>>
       ELSE LET flashAnno == [id |-> FlashId(nextId),
                              documentId |-> c.docId,
                              userId |-> GeminiUser,
                              range |-> c.selection[1],
                              comment |-> TextOr(outcome, FlashEmptyFallback),
                              timestamp |-> now,
                              isTemporary |-> TRUE]
            IN  /\ annotations' = Append(annotations, flashAnno)
                /\ activeAnnotationId' = flashAnno.id
                /\ currentSelection' = <<>>
                /\ timers' = timers \cup {[id |-> flashAnno.id,
                                           due |-> now + FlashExpiryMs,
                                           activeId |-> c.activeId]}
                /\ nextId' = nextId + 1
    /\ isGeneratingFlash' = InProgressAfter(outcome)
    /\ calls' = calls \ {c}
    /\ console' = IF outcome = "error" THEN FlashFailed ELSE console
    /\ UNCHANGED <<lsAnnos, currentUser, documents, activeDocId, commentText,
                   searchTerm, docSummary, isSummarizing, isGeneratingAI, now>>
    /\ Rerender

\* the setTimeout callback of handleFlashInsight
FlashTimeout(t) ==
    /\ Counted
    /\ UNCHANGED libraryVars
    /\ t \in timers /\ t.due <= now /\ ~Crashed
    /\ annotations' = WithoutId(annotations, t.id)
    /\ activeAnnotationId' =
           IF t.activeId = t.id THEN NullId ELSE activeAnnotationId
    /\ timers' = timers \ {t}
    /\ UNCHANGED console
    /\ UNCHANGED <<lsAnnos, currentUser, documents, activeDocId,
                   currentSelection, commentText, searchTerm, docSummary,
                   aiVars, now, nextId>>
    /\ Rerender

\* time passes; a timer that is due runs before the clock moves on
Tick ==
    /\ Counted
    /\ UNCHANGED libraryVars
    /\ now < MaxTicks * TickMs
    /\ \A t \in timers : now < t.due
    /\ now' = now + TickMs
    /\ UNCHANGED console
    /\ UNCHANGED <<lsAnnos, appVars, aiVars, timers, nextId>>
    /\ Rerender

----------------------------------------------------------------------------
(* Specifications *)

InitCommon ==
    /\ lsAnnos = <<>>
    /\ annotations = <<>>
    /\ currentSelection = <<>>
    /\ commentText = <<>>
    /\ activeAnnotationId = NullId
    /\ searchTerm = <<>>
    /\ docSummary = <<>>
    /\ isGeneratingAI = FALSE
    /\ isGeneratingFlash = FALSE
    /\ isSummarizing = FALSE
    /\ calls = {}
    /\ timers = {}
    /\ now = 0
    /\ nextId = 1
    /\ console = <<>>
    /\ lsPresence = <<>>
    /\ presence = <<>>
    /\ saves = {}

\* The application: the page is loaded, the library holds two documents, no
\* user has joined yet.
Init ==
    /\ InitCommon
    /\ currentUser = Null
    /\ documents = AppDocuments
    /\ lsDocs = AppDocuments
    /\ activeDocId = Null
    /\ stepsLeft = MaxSteps
    /\ rendered = Viewer
    /\ deleteShown = {}

Next ==
    \/ handleJoin
    \/ \E d \in {"d1", "d2"} : SelectDocument(d)
    \/ CloseDocument
    \/ MouseUp
    \/ \E t \in CommentInputs : SetCommentText(t)
    \/ DiscardSelection
    \/ \E n \in 1..MaxIds : ClickAnnotation(UuidId(n)) \/ ClickAnnotation(FlashId(n))
    \/ \E rejects \in BOOLEAN : handleAddAnnotation(rejects)
    \/ \E n \in 1..MaxIds, rejects \in BOOLEAN :
           handleDeleteAnnotation(UuidId(n), rejects)
    \/ \E n \in 1..MaxIds, rejects \in BOOLEAN : saveEdit(UuidId(n), rejects)
    \/ \E n \in 1..MaxIds, rejects \in BOOLEAN :
           submitReply(UuidId(n), rejects) \/ submitReply(FlashId(n), rejects)
    \/ \E d \in {"d1", "d2"}, start \in 0..MaxLen, end \in 0..MaxLen :
           OtherTabSaves(d, start, end)
    \/ \E n \in 1..MaxIds : OtherTabDeletes(UuidId(n))
    \/ handleGenerateSummary
    \/ handleGenerateAIInsight
    \/ handleFlashInsight
    \/ \E c \in calls, outcome \in Outcomes : SummaryReturns(c, outcome)
    \/ \E c \in calls, outcome \in Outcomes : InsightReturns(c, outcome)
    \/ \E c \in calls, outcome \in Outcomes : FlashReturns(c, outcome)
    \/ \E t \in timers : FlashTimeout(t)
    \/ Tick

Spec == Init /\ [][Next]_vars

\* The viewer: a user has joined and opened a document whose text is any
\* short text or the scenario text; the user selects, comments, publishes,
\* replies and searches.
ViewContents == TextsUpTo(ContentAlphabet, MaxLen) \cup {FoxContent}

InitView ==
    /\ InitCommon
    /\ currentUser = ThisUser
    /\ \E c \in ViewContents : documents = <<[id |-> "d1", content |-> c]>>
    /\ lsDocs = documents
    /\ activeDocId = "d1"
    /\ stepsLeft = MaxSteps
    /\ rendered = Viewer
    /\ deleteShown = {}

NextView ==
    \/ MouseUp
    \/ \E t \in SearchTerms : SetSearchTerm(t)
    \/ SetCommentText(<<"c">>)
    \/ handleAddAnnotation(FALSE)
    \/ \E n \in 1..MaxIds : submitReply(UuidId(n), FALSE)

SpecView == InitView /\ [][NextView]_vars

----------------------------------------------------------------------------
(* The library and the presence list: uploads of this tab and of another   *)
(* tab, heartbeats of both, and the passing of time.                       *)

\* the texts a user uploads: UploadZone submits only a non-empty title and
\* a non-empty content
UploadContents == {<<"B">>, <<"b", " ">>}

\* crypto.randomUUID() of handleUpload
UploadId(n) == "doc-" \o ToString(n)

\* the ids a library entry can carry
DocumentIds == {"d1", "d2"} \cup {UploadId(n) : n \in 1..MaxIds}

\* saveDocument after its await: docs.push(doc), written back to the store;
\* docs is the list that getDocuments read when the call started
saveDocument(docs, doc) == Append(docs, doc)

\* the saveDocument calls that have read the store and not yet written
SavesOf(tab) == {s \in saves : s.tab = tab}

\* a 'storage' event of another tab that arrives while this tab's handler
\* is between its read and its write is dispatched after the handler's
\* microtasks: the save under way records that the event is queued
WithEventQueued(all) ==
    {IF s.tab = "this" THEN [s EXCEPT !.eventQueued = TRUE] ELSE s : s \in all}

\* the 15 seconds of updatePresence and getPresence, in milliseconds
PresenceTimeoutMs == 15000

\* the time between two observations of the clock
PresenceTickMs == PresenceTimeoutMs \div 3

\* the number of clock steps followed
MaxWaits == 3

\* getPresence: all.filter(p => (now - p.lastActive) < 15000)
getPresence(all, t) ==
    LET fresh(p) == t - p.lastActive < PresenceTimeoutMs
    IN  SelectSeq(all, fresh)

\* updatePresence that keeps the user's previous record
updatePresence_KeepsUser(all, p, t) ==
    LET kept(q) == t - q.lastActive < PresenceTimeoutMs
    IN  Append(SelectSeq(all, kept), p)

\* updatePresence: all.filter(p => p.userId !== presence.userId &&
\* (now - p.lastActive) < 15000), then all.push(presence)
updatePresence(all, p, t) ==
    LET kept(q) == q.userId # p.userId /\ t - q.lastActive < PresenceTimeoutMs
    IN  Append(SelectSeq(all, kept), p)

\* syncAll's setPresence(getPresence())
syncPresence(prev, all, t) == IF currentUser # Null THEN getPresence(all, t) ELSE prev

\* handleUpload up to the await inside saveDocument: the UploadZone is on
\* screen while no document is open; getDocuments has read the store
handleUpload(content) ==
    /\ Counted
    /\ currentUser # Null /\ ~Crashed
    /\ ~HasActiveDoc
    /\ SavesOf("this") = {}
    /\ nextId <= MaxIds
    /\ saves' = saves \cup {[tab |-> "this",
                             read |-> lsDocs,
                             doc |-> [id |-> UploadId(nextId),
                                      content |-> content],
                             eventQueued |-> FALSE]}
    /\ nextId' = nextId + 1
    /\ UNCHANGED console
    /\ UNCHANGED <<lsDocs, lsPresence, presence>>
    /\ UNCHANGED <<lsAnnos, appVars, aiVars, timers, now>>
    /\ Rerender

\* The rest of handleUpload, in the order of the microtasks: saveDocument
\* writes the store and dispatches 'storage', syncAll reads the store and
\* replaces the list, the handler appends newDoc and opens it, and the
\* document-switching effect loads its annotations.  A 'storage' event of
\* another tab that was queued meanwhile runs syncAll once more afterwards.
UploadCompletes(s) ==
    /\ Counted
    /\ s.tab = "this"
    /\ LET stored == saveDocument(s.read, s.doc)
           synced == syncDocuments(documents, stored)
           appended == Append(synced, s.doc)
       IN  /\ lsDocs' = stored
           /\ documents' = IF s.eventQueued
                           THEN syncDocuments(appended, stored)
                           ELSE appended
    /\ activeDocId' = s.doc.id
    /\ annotations' = getAnnotations(lsAnnos, s.doc.id)
    /\ currentSelection' = <<>>
    /\ commentText' = <<>>
    /\ activeAnnotationId' = NullId
    /\ docSummary' = <<>>
    /\ searchTerm' = <<>>
    /\ presence' = syncPresence(presence, lsPresence, now)
    /\ saves' = saves \ {s}
    /\ UNCHANGED console
    /\ UNCHANGED <<lsAnnos, lsPresence, currentUser, aiVars, timers, now, nextId>>
    /\ Rerender

\* another tab calls saveDocument: its getDocuments reads the store
OtherTabUploadReads(content) ==
    /\ Counted
    /\ SavesOf("other") = {}
    /\ nextId <= MaxIds
    /\ saves' = saves \cup {[tab |-> "other",
                             read |-> lsDocs,
                             doc |-> [id |-> UploadId(nextId),
                                      content |-> content],
                             eventQueued |-> FALSE]}
    /\ nextId' = nextId + 1
    /\ UNCHANGED console
    /\ UNCHANGED <<lsDocs, lsPresence, presence>>
    /\ UNCHANGED <<lsAnnos, appVars, aiVars, timers, now>>
    /\ Rerender

\* the other tab's saveDocument writes the store; this tab's 'storage'
\* listener runs syncAll, at once or after the handler that is under way
OtherTabUploadWrites(s) ==
    /\ Counted
    /\ s.tab = "other"
    /\ LET stored == saveDocument(s.read, s.doc)
       IN  /\ lsDocs' = stored
           /\ IF SavesOf("this") = {}
              THEN /\ documents' = syncDocuments(documents, stored)
                   /\ annotations' = syncAll(annotations, lsAnnos)
                   /\ presence' = syncPresence(presence, lsPresence, now)
                   /\ saves' = saves \ {s}
              ELSE /\ UNCHANGED <<documents, annotations, presence>>
                   /\ saves' = WithEventQueued(saves \ {s})
    /\ UNCHANGED console
    /\ UNCHANGED <<lsAnnos, lsPresence, currentUser, activeDocId,
                   currentSelection, commentText, activeAnnotationId,
                   searchTerm, docSummary, aiVars, timers, now, nextId>>
    /\ Rerender

\* the heartbeat of this tab: updatePresence, whose 'presence_update' event
\* runs syncAll, then setPresence(getPresence())
Heartbeat ==
    /\ Counted
    /\ currentUser # Null /\ ~Crashed
    /\ SavesOf("this") = {}
    /\ LET stored == updatePresence(lsPresence,
                                    [userId |-> currentUser,
                                     lastActive |-> now,
                                     currentDocId |-> activeDocId],
                                    now)
       IN  /\ lsPresence' = stored
           /\ presence' = getPresence(stored, now)
    /\ documents' = syncDocuments(documents, lsDocs)
    /\ annotations' = syncAll(annotations, lsAnnos)
    /\ UNCHANGED console
    /\ UNCHANGED <<lsDocs, saves>>
    /\ UNCHANGED <<lsAnnos, currentUser, activeDocId, currentSelection,
                   commentText, activeAnnotationId, searchTerm, docSummary,
                   aiVars, timers, now, nextId>>
    /\ Rerender

\* the heartbeat of the other user's tab, which shows document d or none;
\* this tab's 'storage' listener runs syncAll
OtherTabHeartbeat(d) ==
    /\ Counted
    /\ SavesOf("this") = {}
    /\ LET stored == updatePresence(lsPresence,
                                    [userId |-> OtherUser,
                                     lastActive |-> now,
                                     currentDocId |-> d],
                                    now)
       IN  /\ lsPresence' = stored
           /\ presence' = syncPresence(presence, stored, now)
    /\ documents' = syncDocuments(documents, lsDocs)
    /\ annotations' = syncAll(annotations, lsAnnos)
    /\ UNCHANGED console
    /\ UNCHANGED <<lsDocs, saves>>
    /\ UNCHANGED <<lsAnnos, currentUser, activeDocId, currentSelection,
                   commentText, activeAnnotationId, searchTerm, docSummary,
                   aiVars, timers, now, nextId>>
    /\ Rerender

\* the clock moves on while no handler is under way
Wait ==
    /\ Counted
    /\ UNCHANGED libraryVars
    /\ SavesOf("this") = {}
    /\ now < MaxWaits * PresenceTickMs
    /\ now' = now + PresenceTickMs
    /\ UNCHANGED console
    /\ UNCHANGED <<lsAnnos, appVars, aiVars, timers, nextId>>
    /\ Rerender

\* The library: the page is loaded with two documents; a user joins,
\* uploads, opens and closes documents while another tab uploads too, both
\* tabs send heartbeats and time passes.
NextLibrary ==
    \/ handleJoin
    \/ \E d \in DocumentIds : SelectDocument(d)
    \/ CloseDocument
    \/ \E c \in UploadContents : handleUpload(c)
    \/ \E s \in saves : UploadCompletes(s)
    \/ \E c \in UploadContents : OtherTabUploadReads(c)
    \/ \E s \in saves : OtherTabUploadWrites(s)
    \/ Heartbeat
    \/ \E d \in {Null, "d1"} : OtherTabHeartbeat(d)
    \/ Wait

SpecLibrary == Init /\ [][NextLibrary]_vars

----------------------------------------------------------------------------
(* The viewer's segments (SpecView) *)

\* the offsets at which the rendered segments start or end
SegmentBoundaries ==
    {rendered.segments[k].start : k \in 1..Len(rendered.segments)}
        \cup {rendered.segments[k].end : k \in 1..Len(rendered.segments)}

\* C1: whenever the viewer has rendered the active document, its segments
\* are non-empty, ascending and contiguous, the first starts at 0 and the
\* last ends at the length of the content; empty content yields no segments.
C1_Partition ==
    HasActiveDoc /\ rendered.status \in {"ok", "null"} =>
        LET content == activeDoc[1].content
            segs == rendered.segments
        IN  IF content = <<>> THEN segs = <<>>
            ELSE /\ segs # <<>>
                 /\ segs[1].start = 0
                 /\ segs[Len(segs)].end = Len(content)
                 /\ \A k \in 1..Len(segs) : segs[k].start < segs[k].end
                 /\ \A k \in 1..(Len(segs) - 1) : segs[k].end = segs[k + 1].start

\* C2: an annotation of the in-memory set is in a rendered segment's covering
\* set exactly if the segment starts at or after the range's start and ends
\* at or before the range's end.
C2_Containment ==
    rendered.status = "ok" =>
        \A k \in 1..Len(rendered.segments), i \in 1..Len(annotations) :
            LET seg == rendered.segments[k]
                range == annotations[i].range
            IN  (\E j \in 1..Len(seg.activeAnnos) :
                     seg.activeAnnos[j] = annotations[i].id)
                <=> (seg.start >= range.start /\ seg.end <= range.end)

\* a segment in the intersection of two annotations with different ranges is
\* covered by both
C2_OverlapCoveredByBoth ==
    /\ rendered.status = "ok"
    /\ \E k \in 1..Len(rendered.segments), i, j \in 1..Len(annotations) :
           /\ annotations[i].range.start < annotations[j].range.start
           /\ annotations[j].range.start < annotations[i].range.end
           /\ annotations[i].range.end < annotations[j].range.end
           /\ rendered.segments[k].start = annotations[j].range.start
           /\ rendered.segments[k].end = annotations[i].range.end
           /\ Len(rendered.segments[k].activeAnnos) = 2

\* C3: whatever is rendered, a selection of the document characters s .. e - 1
\* that the mapper passes on is passed on as start s, end e and the text
\* content[s:e].
C3_SelectionMapping ==
    HasActiveDoc /\ rendered.status = "ok" =>
        LET content == activeDoc[1].content
            dom == DomText(rendered.segments)
        IN  \A span \in SpansTried(content) :
                LET offsets == DomOffsets(dom, span[1], span[2])
                    emitted == handleSelection(dom, offsets[1], offsets[2])
                IN  emitted # <<>> =>
                        emitted[1] = [start |-> span[1], end |-> span[2],
                                      text |-> Slice(content, span[1], span[2])]

\* the scenario: "The quick brown fox", one annotation on [4,9), term "fox"
FoxScenario ==
    /\ HasActiveDoc /\ activeDoc[1].content = FoxContent
    /\ Len(annotations) = 1
    /\ annotations[1].range.start = 4 /\ annotations[1].range.end = 9
    /\ searchTerm = FoxTerm

\* the segment of the rendering that spans start .. end, as a set
SegmentsAt(start, end) ==
    {k \in 1..Len(rendered.segments) :
        rendered.segments[k].start = start /\ rendered.segments[k].end = end}

\* C7 as stated: in the scenario the boundaries are {0,4,9,16,19,20} and there
\* are 5 segments, [4,9) with one covering annotation and [16,19) a search
\* match.
C7_AsStated ==
    FoxScenario =>
        /\ SegmentBoundaries = {0, 4, 9, 16, 19, 20}
        /\ Len(rendered.segments) = 5
        /\ \E k \in SegmentsAt(4, 9) : Len(rendered.segments[k].activeAnnos) = 1
        /\ \E k \in SegmentsAt(16, 19) : rendered.segments[k].isSearchMatch

\* C7: in the scenario the boundaries are {0,4,9,16,19}, the text being 19
\* characters long, and there are 4 segments, [4,9) with exactly one covering
\* annotation and [16,19) a search match.
C7_FoxScenario ==
    FoxScenario =>
        /\ rendered.status = "ok"
        /\ SegmentBoundaries = {0, 4, 9, 16, 19}
        /\ Len(rendered.segments) = 4
        /\ \E k \in SegmentsAt(4, 9) : Len(rendered.segments[k].activeAnnos) = 1
        /\ \E k \in SegmentsAt(16, 19) : rendered.segments[k].isSearchMatch

C7_ScenarioRendered == FoxScenario /\ rendered.status = "ok"

----------------------------------------------------------------------------
(* The store, the handlers and the generation calls (Spec) *)

NoDuplicateTuples ==
    \A i, j \in 1..Len(lsAnnos) : i # j => ~SameTuple(lsAnnos[i], lsAnnos[j])

\* the publish that is about to run saves a tuple the store already holds
PublishesStoredTuple ==
    /\ currentSelection # <<>> /\ activeDocId # Null
    /\ Trim(commentText) # <<>>
    /\ \E i \in 1..Len(lsAnnos) :
           /\ lsAnnos[i].documentId = activeDocId
           /\ lsAnnos[i].userId = currentUser
           /\ lsAnnos[i].range.start = currentSelection[1].start
           /\ lsAnnos[i].range.end = currentSelection[1].end

\* C4: after every step the store holds at most one annotation per
\* (documentId, userId, range.start, range.end), and a publish whose tuple is
\* already stored leaves the store as it was.
C4_DuplicateGuard ==
    [][/\ NoDuplicateTuples'
       /\ PublishesStoredTuple /\ handleAddAnnotation(FALSE)
              => lsAnnos' = lsAnnos]_vars

\* a second publish of a stored tuple has run: the set shows two of them,
\* the store holds one
C4_SecondPublishRan ==
    \E i, j \in 1..Len(annotations) :
        /\ i < j
        /\ ~annotations[i].isTemporary /\ ~annotations[j].isTemporary
        /\ SameTuple(annotations[i], annotations[j])
        /\ Cardinality({k \in 1..Len(lsAnnos) :
                            SameTuple(lsAnnos[k], annotations[i])}) = 1

\* C5: a flash annotation is in the in-memory set at no time later than the
\* expiry interval after its insertion.
C5_EphemeralExpiry ==
    \A i \in 1..Len(annotations) :
        annotations[i].isTemporary =>
            now <= annotations[i].timestamp + FlashExpiryMs

\* a flash annotation was inserted and its timer has removed it: it is still
\* the active annotation id, which a document switch would have reset
C5_FlashExpired ==
    /\ now >= FlashExpiryMs /\ timers = {}
    /\ \E n \in 1..MaxIds : activeAnnotationId = FlashId(n)
    /\ \A i \in 1..Len(annotations) : ~annotations[i].isTemporary

\* the rest of the handler that made call c runs, with some outcome
CallReturns(c) ==
    \E outcome \in Outcomes :
        \/ SummaryReturns(c, outcome)
        \/ InsightReturns(c, outcome)
        \/ FlashReturns(c, outcome)

\* C6: while a document is active, the result of a generation call that was
\* started for another document is not applied: the in-memory set, the draft
\* comment and the summary stay as they are.
C6_StaleResultDiscarded ==
    [][\A c \in calls :
           activeDocId # Null /\ c.docId # activeDocId /\ CallReturns(c)
               => UNCHANGED <<annotations, commentText, docSummary>>]_vars

\* C8: a publish or a delete whose service call rejects leaves the in-memory
\* set, the pending selection, the draft comment and the active annotation
\* id as they were.
C8_RejectionChangesNothing ==
    [][(\/ handleAddAnnotation(TRUE)
        \/ \E n \in 1..MaxIds : handleDeleteAnnotation(UuidId(n), TRUE))
           => UNCHANGED <<annotations, currentSelection, commentText,
                          activeAnnotationId>>]_vars

\* a publish was rejected: its selection and draft are still pending
C8_PublishRejected ==
    /\ console = Uncaught("handleAddAnnotation")
    /\ currentSelection # <<>> /\ Trim(commentText) # <<>>

\* C9: when a generation call fails, the in-memory set and the document list
\* are unchanged, the summary or the draft comment becomes its fixed fallback
\* string, nothing is thrown out of the handler, and the handler's
\* in-progress flag is false afterwards.
C9_GenerationFailureRecovered ==
    [][\A c \in calls :
           /\ SummaryReturns(c, "error") =>
                  /\ UNCHANGED <<annotations, documents, console>>
                  /\ docSummary' = <<SummaryErrorFallback>>
                  /\ ~isSummarizing'
           /\ InsightReturns(c, "error") =>
                  /\ UNCHANGED <<annotations, documents, console>>
                  /\ commentText' = DraftErrorFallback
                  /\ ~isGeneratingAI'
           /\ FlashReturns(c, "error") =>
                  /\ UNCHANGED <<annotations, documents>>
                  /\ console' = FlashFailed
                  /\ ~isGeneratingFlash']_vars

\* each of the three handlers has recovered from a failed call
C9_AllThreeFailed ==
    /\ docSummary = <<SummaryErrorFallback>>
    /\ commentText = DraftErrorFallback
    /\ console = FlashFailed
    /\ ~isSummarizing /\ ~isGeneratingAI /\ ~isGeneratingFlash

----------------------------------------------------------------------------
(* Removal (SpecRemoval): a user who has joined and opened the first       *)
(* document selects, publishes, deletes, asks for flash insights and       *)
(* switches documents, while the clock runs.                                *)

InitRemoval ==
    /\ InitCommon
    /\ currentUser = ThisUser
    /\ documents = AppDocuments
    /\ lsDocs = AppDocuments
    /\ activeDocId = "d1"
    /\ stepsLeft = MaxRemovalSteps
    /\ rendered = Viewer
    /\ deleteShown = {}

NextRemoval ==
    \/ MouseUp
    \/ SetCommentText(<<"c">>)
    \/ handleAddAnnotation(FALSE)
    \/ \E n \in 1..MaxIds : handleDeleteAnnotation(UuidId(n), FALSE)
    \/ \E d \in {"d1", "d2"} : SelectDocument(d)
    \/ handleFlashInsight
    \/ \E c \in calls : FlashReturns(c, "text")
    \/ \E t \in timers : FlashTimeout(t)
    \/ Tick

SpecRemoval == InitRemoval /\ [][NextRemoval]_vars

\* the id is in neither the in-memory set nor the store
AbsentId(id) ==
    /\ \A i \in 1..Len(annotations) : annotations[i].id # id
    /\ \A i \in 1..Len(lsAnnos) : lsAnnos[i].id # id

\* C10: removing an id that is in neither the in-memory set nor the store,
\* by the expiry timer or by the delete handler and the store's delete,
\* leaves both as they were.
C10_RemovalIdempotent ==
    [][/\ \A t \in timers :
              AbsentId(t.id) /\ FlashTimeout(t)
                  => UNCHANGED <<annotations, lsAnnos>>
       /\ \A n \in 1..MaxIds :
              AbsentId(UuidId(n)) /\ handleDeleteAnnotation(UuidId(n), FALSE)
                  => UNCHANGED <<annotations, lsAnnos>>]_vars

----------------------------------------------------------------------------
(* Ephemeral annotations and the store (Spec) *)

\* C11: the store never holds an annotation that was created as an ephemeral
\* flash annotation: none whose id starts with 'flash-', none marked temporary.
C11_EphemeralNeverPersisted ==
    \A i \in 1..Len(lsAnnos) :
        ~StartsWithFlash(lsAnnos[i].id) /\ ~lsAnnos[i].isTemporary

\* a flash annotation is in the in-memory set next to a published annotation
\* that has been replied to, so the store was written twice around it
C11_FlashBesideStored ==
    /\ \E i \in 1..Len(annotations) : StartsWithFlash(annotations[i].id)
    /\ \E i \in 1..Len(lsAnnos) : lsAnnos[i].replies # <<>>

----------------------------------------------------------------------------
(* The DocumentViewer by its props (SpecProps): the component is given any *)
(* text, any list of annotations of the data model whose ranges lie within *)
(* the text, and a search term; a click on a highlight or a card changes   *)
(* the active annotation id and the viewer computes its segments again.    *)

\* TextRange: 0 <= start <= end <= content.length, text the slice
PropRanges(content) ==
    {[start |-> s, end |-> e, text |-> Slice(content, s, e)] :
        <<s, e>> \in {p \in (0..Len(content)) \X (0..Len(content)) :
                         p[1] <= p[2]}}

\* Date.now() of two annotations made at different or equal times
PropTimestamps == {0, 1}

\* a published annotation without replies, one with a reply, and a flash
\* annotation, which has no replies field
PropKinds == {"plain", "replied", "flash"}

PropShapes(content) ==
    {[range |-> r, timestamp |-> ts, kind |-> k] :
        r \in PropRanges(content), ts \in PropTimestamps, k \in PropKinds}

\* the i-th annotation of the list, of the given shape
PropAnnotation(i, shape) ==
    IF shape.kind = "flash"
    THEN [id |-> FlashId(i), documentId |-> "d1", userId |-> GeminiUser,
          range |-> shape.range, comment |-> FlashEmptyFallback,
          timestamp |-> shape.timestamp, isTemporary |-> TRUE]
    ELSE [id |-> UuidId(i), documentId |-> "d1", userId |-> OtherUser,
          range |-> shape.range, comment |-> <<"c">>,
          timestamp |-> shape.timestamp,
          replies |-> IF shape.kind = "replied"
                      THEN <<[id |-> UuidId(MaxIds), userId |-> ThisUser,
                              comment |-> ReplyInput,
                              timestamp |-> shape.timestamp]>>
                      ELSE <<>>,
          isTemporary |-> FALSE]

PropAnnotationLists(content) ==
    UNION {{[i \in 1..n |-> PropAnnotation(i, f[i])] :
               f \in [1..n -> PropShapes(content)]} : n \in 0..MaxAnnos}

\* no search, and a literal term that the short texts can contain
PropTerms == {<<>>, <<"b", "b", " ">>}

InitProps ==
    /\ currentUser = ThisUser
    /\ \E c \in TextsUpTo(ContentAlphabet, MaxLen) :
           /\ documents = <<[id |-> "d1", content |-> c]>>
           /\ annotations \in PropAnnotationLists(c)
    /\ searchTerm \in PropTerms
    /\ activeDocId = "d1"
    /\ lsAnnos = <<>>
    /\ lsDocs = documents
    /\ lsPresence = <<>>
    /\ presence = <<>>
    /\ saves = {}
    /\ currentSelection = <<>>
    /\ commentText = <<>>
    /\ activeAnnotationId = NullId
    /\ docSummary = <<>>
    /\ isGeneratingAI = FALSE
    /\ isGeneratingFlash = FALSE
    /\ isSummarizing = FALSE
    /\ calls = {}
    /\ timers = {}
    /\ now = 1
    /\ nextId = 1
    /\ console = <<>>
    /\ stepsLeft = 1
    /\ rendered = Viewer
    /\ deleteShown = {}

NextProps ==
    \E n \in 1..MaxAnnos : ClickAnnotation(UuidId(n)) \/ ClickAnnotation(FlashId(n))

SpecProps == InitProps /\ [][NextProps]_vars

\* C12: computing the segments leaves the annotation list it was given as it
\* was, in order and in elements, and computing them again from the same
\* content, list, active id and search term yields the same segments.
C12_SegmentsIdempotent ==
    HasActiveDoc =>
        LET content == activeDoc[1].content
            after == AnnotationsAfter(content, annotations, searchTerm)
        IN  /\ after = annotations
            /\ renderedContent(content, after, activeAnnotationId, searchTerm)
                   = rendered

\* the segments were computed a second time, after a click, and a segment's
\* covering annotations were given oldest first, so the sort of the segment
\* loop reordered them both times
C12_SortReordered ==
    /\ rendered.status = "ok"
    /\ activeAnnotationId # NullId
    /\ Len(annotations) = 2
    /\ annotations[1].timestamp < annotations[2].timestamp
    /\ \E k \in 1..Len(rendered.segments) :
           rendered.segments[k].activeAnnos
               = <<annotations[2].id, annotations[1].id>>

----------------------------------------------------------------------------
(* Ranges of the annotations made by selecting (SpecView) *)

\* the annotation's range lies within the text of its document and its text
\* is the slice of that text
RangeWithinDocument(anno) ==
    \A d \in 1..Len(documents) :
        documents[d].id = anno.documentId =>
            /\ 0 <= anno.range.start
            /\ anno.range.start <= anno.range.end
            /\ anno.range.end <= Len(documents[d].content)
            /\ anno.range.text = Slice(documents[d].content,
                                       anno.range.start, anno.range.end)

\* C13: every annotation of the in-memory set and of the store, each made by
\* selecting and then publishing, has 0 <= range.start <= range.end <=
\* len(content) of its document and range.text = content[start:end].
C13_RangeInvariant ==
    /\ \A i \in 1..Len(annotations) : RangeWithinDocument(annotations[i])
    /\ \A i \in 1..Len(lsAnnos) : RangeWithinDocument(lsAnnos[i])

----------------------------------------------------------------------------
(* The segments by the viewer's props (SpecProps) *)

\* the match spans the search found in the text of the open document
FoundMatches ==
    IF HasActiveDoc /\ rendered.status = "ok"
    THEN SearchMatches(activeDoc[1].content, searchTerm).spans
    ELSE {}

\* C14: a rendered segment is flagged as a search match exactly if the term
\* is longer than 2 characters and the segment lies within, or is, one of the
\* match spans found; the segments into which an annotation boundary splits a
\* match are all flagged.
C14_SearchMatchFlag ==
    rendered.status = "ok" =>
        \A k \in 1..Len(rendered.segments) :
            LET seg == rendered.segments[k]
            IN  seg.isSearchMatch
                <=> /\ Len(searchTerm) > 2
                    /\ \E m \in FoundMatches :
                           m[1] <= seg.start /\ seg.end <= m[2]

\* the half-open intervals [a, b) and [s, e) share a character
Overlaps(a, b, s, e) == a < e /\ s < b

\* [a, b) lies within [s, e)
Within(a, b, s, e) == s <= a /\ b <= e

\* C15: no rendered segment straddles a boundary: each segment lies entirely
\* inside or entirely outside every annotation range and every found match
\* span, so for every segment and annotation the containment test of the
\* covering set agrees with half-open overlap.
C15_NoStraddle ==
    rendered.status = "ok" =>
        \A k \in 1..Len(rendered.segments) :
            LET seg == rendered.segments[k]
            IN  /\ \A i \in 1..Len(annotations) :
                       LET range == annotations[i].range
                       IN  /\ Overlaps(seg.start, seg.end, range.start, range.end)
                               => Within(seg.start, seg.end,
                                         range.start, range.end)
                           /\ (\E j \in 1..Len(seg.activeAnnos) :
                                   seg.activeAnnos[j] = annotations[i].id)
                               <=> Overlaps(seg.start, seg.end,
                                            range.start, range.end)
                /\ \A m \in FoundMatches :
                       Overlaps(seg.start, seg.end, m[1], m[2])
                           => Within(seg.start, seg.end, m[1], m[2])

\* two annotations overlap in part inside a found match, and the segments
\* were computed again after a click on one of them
C15_PartialOverlapInMatch ==
    /\ rendered.status = "ok"
    /\ activeAnnotationId # NullId
    /\ Len(annotations) = 2
    /\ annotations[1].range.start < annotations[2].range.start
    /\ annotations[2].range.start < annotations[1].range.end
    /\ annotations[1].range.end < annotations[2].range.end
    /\ \E m \in FoundMatches :
           m[1] <= annotations[1].range.start /\ annotations[2].range.end <= m[2]

\* the annotations of the list that are in the covering set of a segment
CoveringOf(seg) ==
    {i \in 1..Len(annotations) :
        \E j \in 1..Len(seg.activeAnnos) : seg.activeAnnos[j] = annotations[i].id}

\* C16: the primary annotation of every covered segment, whose colour is
\* used and whose id a click reports, is one of the covering annotations and
\* its timestamp is at least that of every covering annotation.
C16_PrimaryIsNewest ==
    rendered.status = "ok" =>
        \A k \in 1..Len(rendered.segments) :
            LET seg == rendered.segments[k]
            IN  seg.activeAnnos # <<>> =>
                    \E p \in CoveringOf(seg) :
                        /\ annotations[p].id = seg.primaryAnno
                        /\ \A i \in CoveringOf(seg) :
                               annotations[p].timestamp
                                   >= annotations[i].timestamp

\* a segment is covered by an older annotation given first and a newer one
\* given second, and a click on it made the newer one the active annotation
C16_NewerGivenSecond ==
    /\ rendered.status = "ok"
    /\ Len(annotations) = 2
    /\ annotations[1].timestamp < annotations[2].timestamp
    /\ activeAnnotationId = annotations[2].id
    /\ \E k \in 1..Len(rendered.segments) :
           /\ CoveringOf(rendered.segments[k]) = {1, 2}
           /\ rendered.segments[k].primaryAnno = annotations[2].id

\* the number of replies of the annotations of the list at the indices I,
\* an annotation without a replies list counting as none
RECURSIVE RepliesOver(_)
RepliesOver(I) ==
    IF I = {} THEN 0
    ELSE LET i == Min(I)
             given == IF "replies" \in DOMAIN annotations[i]
                      THEN Len(annotations[i].replies) ELSE 0
         IN  given + RepliesOver(I \ {i})

\* C17: the reply-count badge of every covered segment shows the sum of the
\* numbers of replies of all its covering annotations, and a segment whose
\* sum is 0 has no badge.
C17_BadgeSumsAllReplies ==
    rendered.status = "ok" =>
        \A k \in 1..Len(rendered.segments) :
            LET seg == rendered.segments[k]
                sum == RepliesOver(CoveringOf(seg))
            IN  seg.activeAnnos # <<>> =>
                    /\ seg.totalReplies = sum
                    /\ seg.badge = IF sum = 0 THEN <<>> ELSE NumberToString(sum)

\* a segment's primary annotation has no reply and another covering one has,
\* so the badge shows a count that is not the primary's; another segment is
\* covered by a flash annotation, which has no replies list, and has no
\* badge; the segments were computed again after a click
C17_BadgeNotOfPrimary ==
    /\ rendered.status = "ok"
    /\ activeAnnotationId # NullId
    /\ \E k \in 1..Len(rendered.segments) :
           LET seg == rendered.segments[k]
           IN  /\ Cardinality(CoveringOf(seg)) = 2
               /\ seg.badge = <<"1">>
               /\ \E p \in CoveringOf(seg) :
                      /\ annotations[p].id = seg.primaryAnno
                      /\ "replies" \notin DOMAIN annotations[p]
    /\ \E k \in 1..Len(rendered.segments) :
           /\ Len(rendered.segments[k].activeAnnos) = 1
           /\ rendered.segments[k].isFlash
           /\ rendered.segments[k].badge = <<>>

\* C18: an annotation whose range has start = end is in the covering set of
\* no rendered segment.
C18_ZeroLengthInvisible ==
    rendered.status = "ok" =>
        \A i \in 1..Len(annotations) :
            annotations[i].range.start = annotations[i].range.end =>
                \A k \in 1..Len(rendered.segments) :
                    i \notin CoveringOf(rendered.segments[k])

\* a zero-length annotation inside the range of another annotation splits
\* that one's highlight in two, and is the active annotation after a click on
\* its card, while no segment is shown selected
C18_ZeroLengthSplits ==
    /\ rendered.status = "ok"
    /\ \E i, j \in 1..Len(annotations) :
           /\ annotations[i].range.start = annotations[i].range.end
           /\ annotations[j].range.start < annotations[i].range.start
           /\ annotations[i].range.end < annotations[j].range.end
           /\ activeAnnotationId = annotations[i].id
           /\ \E k \in 1..Len(rendered.segments) :
                  /\ rendered.segments[k].end = annotations[i].range.start
                  /\ CoveringOf(rendered.segments[k]) = {j}
    /\ \A k \in 1..Len(rendered.segments) : ~rendered.segments[k].isSelected

----------------------------------------------------------------------------
(* Publishing and deleting (Spec) *)

\* what Publish requires: a joined user, an active document, a pending
\* selection and a non-blank draft comment
PublishReady ==
    /\ currentUser # Null /\ activeDocId # Null
    /\ currentSelection # <<>> /\ Trim(commentText) # <<>>

\* C19: a publish with a joined user, an active document, a pending selection
\* and a non-blank comment leaves the new annotation persisted in the store
\* and appended to the in-memory set, the selection and the draft cleared and
\* the new annotation active; when the save fails nothing is appended; and a
\* publish that lacks one of the four changes neither the store nor the
\* in-memory state.
C19_PublishLifecycle ==
    [][/\ handleAddAnnotation(FALSE) =>
              IF PublishReady
              THEN /\ \E i \in 1..Len(lsAnnos') : lsAnnos'[i].id = UuidId(nextId)
                   /\ \E i \in 1..Len(annotations') :
                          annotations'[i].id = UuidId(nextId)
                   /\ currentSelection' = <<>>
                   /\ commentText' = <<>>
                   /\ activeAnnotationId' = UuidId(nextId)
              ELSE UNCHANGED <<lsAnnos, appVars>>
       /\ handleAddAnnotation(TRUE) => UNCHANGED <<lsAnnos, appVars>>]_vars

\* the annotations of a list, whatever their order
Elements(s) == {s[i] : i \in 1..Len(s)}

\* C20: when the delete handler has run for an id, neither the store nor the
\* in-memory set holds an annotation with that id, and both hold every other
\* annotation they held before, temporary ones included, unchanged and
\* nothing else.
C20_DeleteRemovesExactlyOne ==
    [][\A n \in 1..MaxIds :
           handleDeleteAnnotation(UuidId(n), FALSE) =>
               /\ Elements(lsAnnos')
                      = {a \in Elements(lsAnnos) : a.id # UuidId(n)}
               /\ Elements(annotations')
                      = {a \in Elements(annotations) : a.id # UuidId(n)}]_vars

----------------------------------------------------------------------------
(* Replies and edits in the store (Spec) *)

\* the stored list after the step differs from the one before at most in
\* the field `field` of the annotation at index
OnlyFieldChanged(index, field) ==
    /\ Len(lsAnnos') = Len(lsAnnos)
    /\ \A j \in 1..Len(lsAnnos) : j # index => lsAnnos'[j] = lsAnnos[j]
    /\ DOMAIN lsAnnos'[index] = DOMAIN lsAnnos[index]
    /\ \A f \in DOMAIN lsAnnos[index] \ {field} :
           lsAnnos'[index][f] = lsAnnos[index][f]

\* the indices of the stored annotations with the id
StoredAt(id) == {i \in 1..Len(lsAnnos) : lsAnnos[i].id = id}

\* the ids an annotation can have
AnnotationIds == {UuidId(n) : n \in 1..MaxIds} \cup {FlashId(n) : n \in 1..MaxIds}

\* C21: a reply posted to a stored annotation is appended at the end of its
\* replies, the earlier replies, every other field and every other annotation
\* staying as they were; an edit changes only the comment of the annotation
\* with the id; and when no stored annotation has the id, either call leaves
\* the store as it was and, dispatching no event, the in-memory set too.
C21_RepliesAppendOnly ==
    [][\A id \in AnnotationIds :
           /\ submitReply(id, FALSE) =>
                  IF StoredAt(id) = {}
                  THEN UNCHANGED <<lsAnnos, annotations>>
                  ELSE \E i \in StoredAt(id) :
                           /\ OnlyFieldChanged(i, "replies")
                           /\ Len(lsAnnos'[i].replies)
                                  = Len(lsAnnos[i].replies) + 1
                           /\ SubSeq(lsAnnos'[i].replies, 1,
                                     Len(lsAnnos[i].replies))
                                  = lsAnnos[i].replies
                           /\ lsAnnos'[i].replies[Len(lsAnnos'[i].replies)].id
                                  = UuidId(nextId)
           /\ saveEdit(id, FALSE) =>
                  IF StoredAt(id) = {}
                  THEN UNCHANGED <<lsAnnos, annotations>>
                  ELSE \E i \in StoredAt(id) :
                           /\ OnlyFieldChanged(i, "comment")
                           /\ lsAnnos'[i].comment = EditInput]_vars

\* a stored annotation was replied to twice and then edited: its replies are
\* in the order in which they were posted
C21_TwoRepliesAndEdit ==
    \E i \in 1..Len(lsAnnos) :
        /\ Len(lsAnnos[i].replies) = 2
        /\ lsAnnos[i].replies[1].id = UuidId(2)
        /\ lsAnnos[i].replies[2].id = UuidId(3)
        /\ lsAnnos[i].comment = EditInput

----------------------------------------------------------------------------
(* Rejected selections (SpecView) *)

\* the selections of the open document that the mapper is to reject: the
\* collapsed ones and those whose text is blank
RejectedSpans ==
    LET dom == DomText(rendered.segments)
    IN  {span \in SpansTried(activeDoc[1].content) :
            LET offsets == DomOffsets(dom, span[1], span[2])
            IN  \/ offsets[1] = offsets[2]
                \/ Trim(DomString(dom, offsets[1], offsets[2])) = <<>>}

\* C22: the mapper emits no range for a collapsed selection and for one whose
\* text is empty after trimming; a mouse-up writes nothing to the console and
\* either leaves the pending selection as it was or replaces it by a range
\* with non-blank text.
C22_SelectionRejected ==
    [][MouseUp =>
           /\ \A span \in RejectedSpans :
                  LET dom == DomText(rendered.segments)
                      offsets == DomOffsets(dom, span[1], span[2])
                  IN  handleSelection(dom, offsets[1], offsets[2]) = <<>>
           /\ console' = console
           /\ \/ currentSelection' = currentSelection
              \/ /\ currentSelection' # <<>>
                 /\ currentSelection'[1].start < currentSelection'[1].end
                 /\ Trim(currentSelection'[1].text) # <<>>]_vars

\* a selection is pending on a text that ends in a blank, and the only steps
\* so far were two mouse-ups, of which a collapsed or blank one changes nothing
C22_PendingAfterTwoMouseUps ==
    /\ currentSelection # <<>>
    /\ stepsLeft = MaxSteps - 2
    /\ searchTerm = <<>> /\ commentText = <<>> /\ annotations = <<>>
    /\ HasActiveDoc
    /\ RejectedSpans # {}
    /\ activeDoc[1].content[Len(activeDoc[1].content)] = " "

----------------------------------------------------------------------------
(* Expiry of the active flash annotation (SpecRemoval) *)

\* C23: when the expiry timer of a flash annotation has run, the active
\* annotation id is not the id of that annotation: if it was, it is reset to
\* none.
C23_ExpiryResetsActive ==
    [][\A t \in timers : FlashTimeout(t) => activeAnnotationId' # t.id]_vars

----------------------------------------------------------------------------
(* The in-memory set and the active document (Spec) *)

\* C24: while a document is active, every annotation of the in-memory set,
\* stored or temporary, belongs to it.
C24_SetOfActiveDocument ==
    activeDocId # Null =>
        \A i \in 1..Len(annotations) : annotations[i].documentId = activeDocId

\* C25: the in-memory set never holds two non-temporary annotations with the
\* same document, user, range start and range end, nor two annotations with
\* the same id.
C25_NoDuplicatesInMemory ==
    \A i, j \in 1..Len(annotations) :
        i # j =>
            /\ annotations[i].id # annotations[j].id
            /\ ~annotations[i].isTemporary /\ ~annotations[j].isTemporary
                   => ~SameTuple(annotations[i], annotations[j])

----------------------------------------------------------------------------
(* The library (SpecLibrary) *)

\* C26: the in-memory document list never holds the same document id twice;
\* after an upload each uploaded document appears exactly once.
C26_NoDocumentTwice ==
    \A i \in 1..Len(documents), j \in 1..Len(documents) :
        documents[i].id = documents[j].id => i = j

\* the uploads that were started and have completed
CompletedUploads ==
    {UploadId(n) : n \in 1..(nextId - 1)} \ {s.doc.id : s \in saves}

\* C27: no document is lost on concurrent saves: once two saveDocument
\* calls that were started before either completed have both completed,
\* the stored list holds both documents.
C27_NoLostDocument ==
    \A id \in CompletedUploads : \E i \in 1..Len(lsDocs) : lsDocs[i].id = id

\* the annotations of the set that are not temporary, in the set's order
Persisted(annos) ==
    LET stored(a) == ~a.isTemporary
    IN  SelectSeq(annos, stored)

\* a step in which another tab wrote the annotation store: this tab does
\* nothing but run syncAll
OtherTabWrote ==
    \/ \E d \in {"d1", "d2"}, start \in 0..MaxLen, end \in 0..MaxLen :
           OtherTabSaves(d, start, end)
    \/ \E n \in 1..MaxIds : OtherTabDeletes(UuidId(n))

\* C28: a sync replaces the persisted part of the in-memory set by exactly
\* the stored annotations of the active document and keeps every temporary
\* annotation already in memory, in every step that writes the store.
C28_SyncKeepsTemporaries ==
    [][/\ (OtherTabWrote /\ currentUser # Null /\ activeDocId # Null)
            => Persisted(annotations') = getAnnotations(lsAnnos', activeDocId)
       /\ lsAnnos' # lsAnnos => Temps(annotations') = Temps(annotations)]_vars

\* an annotation of the other user, saved after a flash annotation was
\* added, stands in memory beside that flash annotation
C28_FlashSurvivedSync ==
    \E i \in 1..Len(annotations), j \in 1..Len(annotations) :
        /\ annotations[i].isTemporary
        /\ ~annotations[j].isTemporary
        /\ annotations[j].userId = OtherUser
        /\ annotations[j].id[2] > annotations[i].id[2]

----------------------------------------------------------------------------
(* The search loop (SpecView) *)

\* C29: segment building terminates for every content, annotation list and
\* search term, also when the term produces a zero-length match, and raises
\* no error for any search term longer than 2 characters.
C29_SegmentBuildingEnds ==
    SearchActive(searchTerm) => rendered.status \in {"ok", "null"}

----------------------------------------------------------------------------
(* Presence (SpecLibrary) *)

\* no record of the list is 15 seconds old or older at time t
AllFresh(list, t) ==
    \A i \in 1..Len(list) : t - list[i].lastActive < PresenceTimeoutMs

\* the list holds at most one record per user
OnePerUser(list) ==
    \A i \in 1..Len(list), j \in 1..Len(list) :
        list[i].userId = list[j].userId => i = j

\* a step in which user u's tab called updatePresence
UpdatedBy(u) ==
    \/ u = ThisUser /\ Heartbeat
    \/ u = OtherUser /\ \E d \in {Null, "d1"} : OtherTabHeartbeat(d)

\* a step in which this tab's syncAll or heartbeat called getPresence
PresenceRead ==
    \/ Heartbeat
    \/ currentUser # Null /\ \E d \in {Null, "d1"} : OtherTabHeartbeat(d)
    \/ \E s \in saves : UploadCompletes(s)
    \/ /\ currentUser # Null
       /\ \A s \in saves : s.tab # "this"
       /\ \E s \in saves : OtherTabUploadWrites(s)

====
